---- MODULE Spec2Model ----
(***************************************************************************)
(* A model of the CoAP message codec of src/CoAP/src/coap.c.               *)
(*                                                                         *)
(* The caller-owned buffer is `mem`, a function from byte offsets to       *)
(* bytes; a C pointer into the buffer is its offset from pBuffer.  The     *)
(* caller's length counter, pBufferLength, is `len` and the caller's tail    *)
(* pointer, pNewPointer, is `tail`.  Each C function is an operator that   *)
(* computes what the function computes, with the integer widths of the     *)
(* C declarations (int8_t, uint8_t, int16_t, uint16_t) kept by explicit    *)
(* conversions.  Each entry point is also an action that applies the       *)
(* operator to the state and records the call in op/arg/ret/out.           *)
(***************************************************************************)
EXTENDS Integers, Sequences, FiniteSets, TLC

VARIABLES mem, len, tail, op, arg, ret, out, hist, opts

vars == <<mem, len, tail, op, arg, ret, out, hist, opts>>

---------------------------------------------------------------------------
(* Bounds of the model. *)

\* Size of the caller-owned array behind pBuffer, in bytes.
MemSize == 24
\* Longest run of entry-point calls on one buffer in the header specification.
MaxCalls == 5
\* Number of option bytes drawn after the header (and token) of a received buffer.
MaxRegion == 3
\* Number of options appended to one outgoing buffer.
MaxOptions == 2
\* Number of options of one assembled message.
MaxMessageOptions == 3

---------------------------------------------------------------------------
(* Program constants, coap.h. *)

COAP_VERSION == 1
COAP_HDR_BYTES == 4
COAP_PAYLOAD_MARKER == 255
MAX_BUFFER_SIZE == 1460

COAP_OK == 0
COAP_INVALID_PACKET == -1
COAP_INVALID_VERSION == -2
COAP_INVALID_TOKEN_LENGTH == -3
COAP_UNKNOWN_CODE == -4
COAP_OPTIONS_OUT_OF_ORDER == -6
COAP_INSUFFICIENT_BUFFER == -7
COAP_FOUND_PAYLOAD_MARKER == -8
COAP_END_OF_PACKET == -9
COAP_INVALID_PAYLOAD == -10
COAP_INVALID_OPTION == -11
COAP_INVALID_TYPE == -16

\* The CoapCode enumeration.
CoapCode == {0, 1, 2, 3, 4, 65, 66, 67, 68, 69,
             128, 129, 130, 131, 132, 133, 134, 140, 141, 143,
             160, 161, 162, 163, 164, 165}

---------------------------------------------------------------------------
(* Fixed-width integer arithmetic of the C types. *)

Byte == 0..255

ToUint8(x) == x % 256

ToUint16(x) == x % 65536

\* Conversion to int8_t of a value that may be out of range (two's complement).
ToInt8(x) == LET u == x % 256 IN IF u >= 128 THEN u - 256 ELSE u

\* Conversion to int16_t of a value that may be out of range (two's complement).
ToInt16(x) == LET u == x % 65536 IN IF u >= 32768 THEN u - 65536 ELSE u

RECURSIVE BitAnd(_, _)
\* a & b, for a, b >= 0.
BitAnd(a, b) ==
    IF a = 0 \/ b = 0 THEN 0
    ELSE (IF a % 2 = 1 /\ b % 2 = 1 THEN 1 ELSE 0) + 2 * BitAnd(a \div 2, b \div 2)

RECURSIVE BitOr(_, _)
\* a | b, for a, b >= 0.
BitOr(a, b) ==
    IF a = 0 THEN b
    ELSE IF b = 0 THEN a
    ELSE (IF a % 2 = 1 \/ b % 2 = 1 THEN 1 ELSE 0) + 2 * BitOr(a \div 2, b \div 2)

\* memcpy(m + at, data, n): the first n bytes of data (a sequence) stored at at...
MemCpy(m, at, data, n) ==
    [i \in DOMAIN m |-> IF i >= at /\ i < at + n THEN data[i - at + 1] ELSE m[i]]

\* The n bytes of m that start at offset at, as a sequence.
Slice(m, at, n) == [i \in 1..n |-> m[at + i - 1]]

\* The number of bytes of the caller's array m; an access at this offset or
\* beyond is outside the array.
Cap(m) == Cardinality(DOMAIN m)

---------------------------------------------------------------------------
(* Validity predicates. *)

\* bool coapVersionIsValid(int8_t version)
coapVersionIsValid(version) == ToInt8(version) = COAP_VERSION

\* bool coapTypeIsValid(int8_t type)
coapTypeIsValid(type) == ~(ToInt8(type) > 3 \/ ToInt8(type) < 0)

\* bool coapTokenLengthIsValid(int8_t tokenLength)
coapTokenLengthIsValid(tokenLength) == ~(ToInt8(tokenLength) >= 9)

\* bool coapCodeIsValid(int16_t code)
coapCodeIsValid(code) == ToInt16(code) \in CoapCode

\* bool coapOptionIsValid(uint8_t option)
coapOptionIsValid(option) ==
    LET o == ToUint8(option) IN
    /\ ~(o = 2 \/ o = 9 \/ o = 10)
    /\ ~(o = 128 \/ o = 132 \/ o = 136 \/ o = 140)

---------------------------------------------------------------------------
(* Header accessors.  Each returns the int8_t / int16_t the C function     *)
(* returns.                                                                *)

\* coapGetVersion with the length test of a function that needs byte 0 only.
coapGetVersionByteZero(m, bufferLength) ==
    IF bufferLength < 1 THEN COAP_INVALID_PACKET
    ELSE LET version == ToInt8(m[0] \div 64) IN
         IF ~coapVersionIsValid(version) THEN COAP_INVALID_VERSION
         ELSE version

\* int8_t coapGetVersion(uint8_t *pBuffer, uint16_t bufferLength)
coapGetVersion(m, bufferLength) ==
    IF bufferLength < COAP_HDR_BYTES THEN COAP_INVALID_PACKET
    ELSE LET version == ToInt8(m[0] \div 64) IN
         IF ~coapVersionIsValid(version) THEN COAP_INVALID_VERSION
         ELSE version

coapGetType(m, bufferLength) ==
    IF bufferLength < COAP_HDR_BYTES THEN COAP_INVALID_PACKET
    ELSE LET type == ToInt8(BitAnd(m[0] \div 16, 3)) IN
         IF ~coapTypeIsValid(type) THEN COAP_INVALID_TYPE
         ELSE type

coapGetTokenLength(m, bufferLength) ==
    IF bufferLength < COAP_HDR_BYTES THEN COAP_INVALID_PACKET
    ELSE LET tokenLength == ToInt8(BitAnd(m[0], 15)) IN
         IF ~coapTokenLengthIsValid(tokenLength) THEN COAP_INVALID_TOKEN_LENGTH
         ELSE tokenLength

\* The local `code` is an int8_t: byte values 0x80..0xFF become negative.
coapGetCode(m, bufferLength) ==
    IF bufferLength < COAP_HDR_BYTES THEN COAP_INVALID_PACKET
    ELSE LET code == ToInt8(m[1]) IN
         IF ~coapCodeIsValid(code) THEN COAP_UNKNOWN_CODE
         ELSE code

\* The local `messageId` and the return type are int16_t.
coapGetMessageId(m, bufferLength) ==
    IF bufferLength < COAP_HDR_BYTES THEN COAP_INVALID_PACKET
    ELSE ToInt16(BitOr(m[2] * 256, m[3]))

\* ret is the int8_t returned; token is what memcpy stores in pToken,
\* the empty sequence when nothing is stored.
coapGetToken(m, bufferLength) ==
    IF bufferLength < COAP_HDR_BYTES
    THEN [ret |-> COAP_INVALID_PACKET, token |-> <<>>]
    ELSE LET tokenLength == coapGetTokenLength(m, bufferLength) IN
         IF tokenLength < 0 THEN [ret |-> tokenLength, token |-> <<>>]
         ELSE IF COAP_HDR_BYTES + tokenLength > bufferLength
              THEN [ret |-> COAP_INSUFFICIENT_BUFFER, token |-> <<>>]
              ELSE [ret |-> COAP_OK,
                    token |-> IF tokenLength > 0
                              THEN Slice(m, COAP_HDR_BYTES, tokenLength)
                              ELSE <<>>]

---------------------------------------------------------------------------
(* Option walkers.  A walker's result carries, beside the C return value,  *)
(* hi: the highest offset it read (-1 when it read nothing), and ub: the   *)
(* walk left the caller's array (an offset at or beyond its size) or used an *)
(* uninitialised pointer, after which the C program's behaviour is         *)
(* undefined and ret means nothing.                                        *)

Max(a, b) == IF a >= b THEN a ELSE b

WalkUB(hi) == [ret |-> 0, ub |-> TRUE, hi |-> hi]

RECURSIVE OptionCountLoop(_, _, _, _, _)
\* The while loop of coapGetOptionCount, entered at the read `byte = *pointer`.
\* optionLength is a uint8_t, newLength a uint16_t; case 0x0E has no break and
\* falls through into case 0x0D.
OptionCountLoop(m, pointer, newLength, count, hi) ==
    IF pointer >= Cap(m) THEN WalkUB(Max(hi, pointer))
    ELSE
    LET byte == m[pointer]
        h0 == Max(hi, pointer)
        optionLength == BitAnd(byte, 15)
    IN  IF ~(byte # COAP_PAYLOAD_MARKER /\ newLength # 0)
        THEN [ret |-> count, ub |-> FALSE, hi |-> h0]
        ELSE IF optionLength = 15
        THEN [ret |-> COAP_INVALID_PACKET, ub |-> FALSE, hi |-> h0]
        ELSE IF optionLength = 14
        THEN LET p1 == pointer + 1 IN
             IF p1 >= Cap(m) THEN WalkUB(p1)
             ELSE
             LET ol1 == ToUint8(m[p1] + 269)
                 nl1 == ToUint16(newLength - (ol1 + 2))
                 p2 == p1 + (ol1 + 1)
                 p3 == p2 + 1
             IN  IF p3 >= Cap(m) THEN WalkUB(p3)
                 ELSE
                 LET ol2 == ToUint8(m[p3] + 13)
                     nl2 == ToUint16(nl1 - (ol2 + 2))
                     p4 == p3 + (ol2 + 1)
                 IN  OptionCountLoop(m, p4, nl2, count + 2, Max(h0, p3))
        ELSE IF optionLength = 13
        THEN LET p1 == pointer + 1 IN
             IF p1 >= Cap(m) THEN WalkUB(p1)
             ELSE
             LET ol == ToUint8(m[p1] + 13)
                 nl == ToUint16(newLength - (ol + 2))
                 p2 == p1 + (ol + 1)
             IN  OptionCountLoop(m, p2, nl, count + 1, Max(h0, p1))
        ELSE OptionCountLoop(m, pointer + (optionLength + 1),
                             ToUint16(newLength - (optionLength + 1)),
                             count + 1, h0)

\* int32_t coapGetOptionCount(uint8_t *pBuffer, uint16_t bufferLength)
coapGetOptionCount(m, bufferLength) ==
    IF bufferLength < COAP_HDR_BYTES
    THEN [ret |-> COAP_INVALID_PACKET, ub |-> FALSE, hi |-> -1]
    ELSE
    LET tokenLength == coapGetTokenLength(m, bufferLength) IN
    IF tokenLength < 0 THEN [ret |-> tokenLength, ub |-> FALSE, hi |-> 0]
    ELSE IF COAP_HDR_BYTES + tokenLength = bufferLength
    THEN [ret |-> 0, ub |-> FALSE, hi |-> 0]
    ELSE OptionCountLoop(m, COAP_HDR_BYTES + tokenLength,
                         ToUint16(bufferLength - (COAP_HDR_BYTES + tokenLength)),
                         0, 0)

\* The two if-chains of coapDecodeOption that expand a delta or length nibble,
\* reading the extension bytes at p.  kind is "err" for nibble 15.
DecodeNibble(m, p, nibble) ==
    IF nibble = 15 THEN [kind |-> "err", val |-> 0, p |-> p, hi |-> -1]
    ELSE IF nibble = 14
    THEN IF p + 1 >= Cap(m)
         THEN [kind |-> "ub", val |-> 0, p |-> p, hi |-> p + 1]
         ELSE [kind |-> "ok", val |-> m[p] * 256 + m[p + 1] + 269,
               p |-> p + 2, hi |-> p + 1]
    ELSE IF nibble = 13
    THEN IF p >= Cap(m)
         THEN [kind |-> "ub", val |-> 0, p |-> p, hi |-> p]
         ELSE [kind |-> "ok", val |-> m[p] + 13, p |-> p + 1, hi |-> p]
    ELSE [kind |-> "ok", val |-> nibble, p |-> p, hi |-> -1]

\* The result of coapDecodeOption when it returns before storing its outputs.
DecodeErr(r, optionNumber, hi) ==
    [ret |-> r, set |-> FALSE, num |-> optionNumber, data |-> 0, newp |-> 0,
     ub |-> FALSE, hi |-> hi]

DecodeUB(optionNumber, hi) ==
    [ret |-> 0, set |-> FALSE, num |-> optionNumber, data |-> 0, newp |-> 0,
     ub |-> TRUE, hi |-> hi]

\* coapDecodeOption after both nibbles are expanded (d: delta, l: length):
\* the stores to the outputs and the return.
DecodeStore(pPointer, optionNumber, d, l) ==
    IF l.kind = "err"
    THEN DecodeErr(COAP_INVALID_PACKET, optionNumber, Max(pPointer, d.hi))
    ELSE IF l.kind = "ub"
    THEN DecodeUB(optionNumber, Max(pPointer, Max(d.hi, l.hi)))
    ELSE [ret |-> ToUint16(l.val), set |-> TRUE,
          num |-> ToUint8(optionNumber + ToUint8(d.val)),
          data |-> l.p, newp |-> l.p + ToUint16(l.val),
          ub |-> FALSE, hi |-> Max(pPointer, Max(d.hi, l.hi))]

\* coapDecodeOption after the delta nibble is expanded (d).
DecodeLength(m, pPointer, optionNumber, d) ==
    IF d.kind = "err" THEN DecodeErr(COAP_INVALID_PACKET, optionNumber, pPointer)
    ELSE IF d.kind = "ub" THEN DecodeUB(optionNumber, d.hi)
    ELSE DecodeStore(pPointer, optionNumber, d,
                     DecodeNibble(m, d.p, BitAnd(m[pPointer], 15)))

\* int32_t coapDecodeOption(pPointer, bufferLength, pOptionNumber, pOptionData,
\* pNewPointer).  optionDelta is a uint8_t and optionLength a uint16_t; no read
\* is checked against bufferLength.  set: the three outputs were stored
\* (num: *pOptionNumber, data: *pOptionData, newp: *pNewPointer).
coapDecodeOption(m, pPointer, bufferLength, optionNumber) ==
    IF bufferLength = 0 THEN DecodeErr(COAP_END_OF_PACKET, optionNumber, -1)
    ELSE IF pPointer >= Cap(m) THEN DecodeUB(optionNumber, pPointer)
    ELSE IF m[pPointer] = COAP_PAYLOAD_MARKER
    THEN DecodeErr(COAP_FOUND_PAYLOAD_MARKER, optionNumber, pPointer)
    ELSE DecodeLength(m, pPointer, optionNumber,
                      DecodeNibble(m, pPointer + 1, m[pPointer] \div 16))

GetOptionUB(hi) ==
    [ret |-> 0, numSet |-> FALSE, num |-> 0, dataSet |-> FALSE, data |-> 0,
     ub |-> TRUE, hi |-> hi]

\* The locals of coapGetOption after one coapDecodeOption call returned d.
\* optionLength is a uint8_t; optionNumber, optionData and newPointer are
\* stored by coapDecodeOption only when it succeeds (d.set); then
\* pointer = newPointer.
GetOptionAssign(st, d) ==
    [pointer |-> IF d.set THEN d.newp ELSE st.np,
     ptrSet |-> d.set \/ st.npSet,
     optionNumber |-> d.num,
     optionLength |-> ToUint8(d.ret),
     data |-> IF d.set THEN d.data ELSE st.data,
     dataSet |-> d.set \/ st.dataSet,
     np |-> IF d.set THEN d.newp ELSE st.np,
     npSet |-> d.set \/ st.npSet,
     ub |-> d.ub,
     hi |-> Max(st.hi, d.hi)]

RECURSIVE GetOptionLoop(_, _, _, _, _)
\* The for loop of coapGetOption with todo iterations left.  st holds the
\* locals: pointer (ptrSet: it holds an initialised value), optionNumber,
\* optionLength (a uint8_t, so a negative return of coapDecodeOption is never
\* seen as an error), optionData and newPointer (dataSet, npSet: assigned).
\* newLength is never decreased.  After the loop the local optionData is
\* tested against 0 and stored when it is not: when no coapDecodeOption call
\* assigned it, it is uninitialised and holds optionDataIndet, the empty
\* sequence for a null pointer and <<p>> for the address pBuffer + p.
GetOptionLoop(m, newLength, todo, st, optionDataIndet) ==
    IF st.ub THEN GetOptionUB(st.hi)
    ELSE IF todo = 0
    THEN [ret |-> st.optionLength, numSet |-> st.optionNumber # 0,
          num |-> st.optionNumber,
          dataSet |-> st.dataSet \/ optionDataIndet # <<>>,
          data |-> IF st.dataSet THEN st.data
                   ELSE IF optionDataIndet # <<>> THEN optionDataIndet[1]
                   ELSE st.data,
          ub |-> FALSE, hi |-> st.hi]
    ELSE IF ~st.ptrSet THEN GetOptionUB(st.hi)
    ELSE IF st.pointer >= Cap(m) THEN GetOptionUB(Max(st.hi, st.pointer))
    ELSE IF m[st.pointer] = COAP_PAYLOAD_MARKER
    THEN [ret |-> COAP_FOUND_PAYLOAD_MARKER, numSet |-> FALSE, num |-> 0,
          dataSet |-> FALSE, data |-> 0, ub |-> FALSE, hi |-> Max(st.hi, st.pointer)]
    ELSE GetOptionLoop(m, newLength, todo - 1,
             GetOptionAssign(st,
                 coapDecodeOption(m, st.pointer, newLength, st.optionNumber)),
             optionDataIndet)

GetOptionErr(r, hi) ==
    [ret |-> r, numSet |-> FALSE, num |-> 0, dataSet |-> FALSE, data |-> 0,
     ub |-> FALSE, hi |-> hi]

\* int32_t coapGetOption(pBuffer, bufferLength, optionIndex, pOptionNumber,
\* pOptionData, pNewPointer).  optionIndex is a uint8_t.  numSet / dataSet: the
\* function stored num in *pOptionNumber / data in *pOptionData.
\* optionDataIndet is the value the local optionData holds before it is
\* assigned (see GetOptionLoop).
coapGetOption(m, bufferLength, optionIndex, optionDataIndet) ==
    IF bufferLength < COAP_HDR_BYTES THEN GetOptionErr(COAP_INVALID_PACKET, -1)
    ELSE
    LET tokenLength == coapGetTokenLength(m, bufferLength) IN
    IF tokenLength < 0 THEN GetOptionErr(tokenLength, 0)
    ELSE IF bufferLength - (COAP_HDR_BYTES + tokenLength) = 0
    THEN GetOptionErr(COAP_END_OF_PACKET, 0)
    ELSE GetOptionLoop(m, ToUint16(bufferLength - (COAP_HDR_BYTES + tokenLength)),
                       ToUint8(optionIndex),
                       [pointer |-> COAP_HDR_BYTES + tokenLength, ptrSet |-> TRUE,
                        optionNumber |-> 0, optionLength |-> 0,
                        data |-> 0, dataSet |-> FALSE,
                        np |-> 0, npSet |-> FALSE, ub |-> FALSE, hi |-> 0],
                       optionDataIndet)

---------------------------------------------------------------------------
(* Payload accessor. *)

RECURSIVE PayloadLoop(_, _, _, _)
\* The while loop of coapGetPayload and the check after it, entered at the
\* read `byte = *pointer`.  The loop runs while byte != 0xFF || newLength == 0;
\* newLength is an int16_t and optionLength an int32_t; case 0x0E falls through
\* into case 0x0D.  payload is the offset stored in *pPayloadData.
PayloadLoop(m, pointer, newLength, hi) ==
    IF pointer >= Cap(m)
    THEN [ret |-> 0, payloadSet |-> FALSE, payload |-> 0, ub |-> TRUE,
          hi |-> Max(hi, pointer)]
    ELSE
    LET byte == m[pointer]
        h0 == Max(hi, pointer)
        optionLength == BitAnd(byte, 15)
    IN  IF ~(byte # COAP_PAYLOAD_MARKER \/ newLength = 0)
        THEN IF byte = COAP_PAYLOAD_MARKER /\ newLength # 0
             THEN [ret |-> ToInt16(newLength - 1), payloadSet |-> TRUE,
                   payload |-> pointer + 1, ub |-> FALSE, hi |-> h0]
             ELSE [ret |-> COAP_INVALID_PACKET, payloadSet |-> FALSE, payload |-> 0,
                   ub |-> FALSE, hi |-> h0]
        ELSE IF optionLength = 15
        THEN [ret |-> COAP_INVALID_PACKET, payloadSet |-> FALSE, payload |-> 0,
              ub |-> FALSE, hi |-> h0]
        ELSE IF optionLength = 14
        THEN LET p1 == pointer + 1 IN
             IF p1 >= Cap(m)
             THEN [ret |-> 0, payloadSet |-> FALSE, payload |-> 0, ub |-> TRUE, hi |-> p1]
             ELSE
             LET ol1 == m[p1] + 269
                 nl1 == ToInt16(newLength - (ol1 + 2))
                 p2 == p1 + (ol1 + 1)
                 p3 == p2 + 1
             IN  IF p3 >= Cap(m)
                 THEN [ret |-> 0, payloadSet |-> FALSE, payload |-> 0, ub |-> TRUE,
                       hi |-> p3]
                 ELSE
                 LET ol2 == m[p3] + 13
                     nl2 == ToInt16(nl1 - (ol2 + 2))
                     p4 == p3 + (ol2 + 1)
                 IN  PayloadLoop(m, p4, nl2, Max(h0, p3))
        ELSE IF optionLength = 13
        THEN LET p1 == pointer + 1 IN
             IF p1 >= Cap(m)
             THEN [ret |-> 0, payloadSet |-> FALSE, payload |-> 0, ub |-> TRUE, hi |-> p1]
             ELSE
             LET ol == m[p1] + 13
                 nl == ToInt16(newLength - (ol + 2))
                 p2 == p1 + (ol + 1)
             IN  PayloadLoop(m, p2, nl, Max(h0, p1))
        ELSE PayloadLoop(m, pointer + (optionLength + 1),
                         ToInt16(newLength - (optionLength + 1)), h0)

PayloadErr(r, ub, hi) ==
    [ret |-> r, payloadSet |-> FALSE, payload |-> 0, ub |-> ub, hi |-> hi]

\* coapGetPayload after coapGetOptionCount returned c and coapGetTokenLength
\* returned tokenLength.  newLength is an int16_t.
GetPayloadCounted(m, bufferLength, c, tokenLength) ==
    IF c.ub THEN PayloadErr(0, TRUE, c.hi)
    ELSE IF c.ret < 0 THEN PayloadErr(ToInt16(c.ret), FALSE, c.hi)
    ELSE IF tokenLength < 0 THEN PayloadErr(tokenLength, FALSE, c.hi)
    ELSE IF COAP_HDR_BYTES + tokenLength > bufferLength
    THEN PayloadErr(COAP_INSUFFICIENT_BUFFER, FALSE, c.hi)
    ELSE IF COAP_HDR_BYTES + tokenLength = bufferLength
    THEN PayloadErr(0, FALSE, c.hi)
    ELSE IF c.ret = 0 /\ m[COAP_HDR_BYTES + tokenLength] = COAP_PAYLOAD_MARKER
    THEN [ret |-> ToInt16(ToInt16(bufferLength - (COAP_HDR_BYTES + tokenLength)) - 1),
          payloadSet |-> TRUE,
          payload |-> COAP_HDR_BYTES + tokenLength + 1, ub |-> FALSE,
          hi |-> Max(c.hi, COAP_HDR_BYTES + tokenLength)]
    ELSE IF c.ret > 0 /\ m[COAP_HDR_BYTES + tokenLength] = COAP_PAYLOAD_MARKER
    THEN PayloadErr(COAP_INVALID_PACKET, FALSE, Max(c.hi, COAP_HDR_BYTES + tokenLength))
    ELSE PayloadLoop(m, COAP_HDR_BYTES + tokenLength,
                     ToInt16(bufferLength - (COAP_HDR_BYTES + tokenLength)), c.hi)

\* int16_t coapGetPayload(pBuffer, bufferLength, pPayloadData)
coapGetPayload(m, bufferLength) ==
    IF bufferLength < COAP_HDR_BYTES THEN PayloadErr(COAP_INVALID_PACKET, FALSE, -1)
    ELSE GetPayloadCounted(m, bufferLength, coapGetOptionCount(m, bufferLength),
                           coapGetTokenLength(m, bufferLength))

---------------------------------------------------------------------------
(* Packet validator. *)

RECURSIVE ValidateLoop(_, _, _, _, _)
\* The for loop of coapValidatePacket at index i, g being the result of
\* coapGetOption(i): the first negative result is returned as an int8_t.
ValidateStep(m, bufferLength, i, optionCount, hi, g) ==
    IF g.ub THEN WalkUB(Max(hi, g.hi))
    ELSE IF g.ret < 0 THEN [ret |-> ToInt8(g.ret), ub |-> FALSE, hi |-> Max(hi, g.hi)]
    ELSE ValidateLoop(m, bufferLength, i + 1, optionCount, Max(hi, g.hi))

\* The for loop of coapValidatePacket: coapGetOption(i) for i = 0..optionCount-1.
\* The pointer coapGetOption stores in tOptionData is never read, so the value
\* of its uninitialised optionData has no effect here: a null pointer is taken.
ValidateLoop(m, bufferLength, i, optionCount, hi) ==
    IF ~(i < optionCount) THEN [ret |-> COAP_OK, ub |-> FALSE, hi |-> hi]
    ELSE ValidateStep(m, bufferLength, i, optionCount, hi,
                      coapGetOption(m, bufferLength, i, <<>>))

\* The four header checks, the same in both branches of coapValidatePacket.
\* Each passes the accessor's result to the validity predicate; the code check
\* is made on coapGetType.  "pass" when no check returns.
ValidateHeader(m, bufferLength) ==
    IF ~coapVersionIsValid(coapGetVersion(m, bufferLength))
    THEN [pass |-> FALSE, ret |-> coapGetVersion(m, bufferLength)]
    ELSE IF ~coapTypeIsValid(coapGetType(m, bufferLength))
    THEN [pass |-> FALSE, ret |-> coapGetType(m, bufferLength)]
    ELSE IF ~coapTokenLengthIsValid(coapGetTokenLength(m, bufferLength))
    THEN [pass |-> FALSE, ret |-> coapGetTokenLength(m, bufferLength)]
    ELSE IF ~coapCodeIsValid(coapGetType(m, bufferLength))
    THEN [pass |-> FALSE, ret |-> coapGetType(m, bufferLength)]
    ELSE [pass |-> TRUE, ret |-> COAP_OK]

\* coapValidatePacket after coapGetOptionCount returned c: an error of the
\* count is answered with `return false`.
ValidateOptions(m, bufferLength, c) ==
    IF c.ub THEN WalkUB(c.hi)
    ELSE IF c.ret < 0 THEN [ret |-> 0, ub |-> FALSE, hi |-> c.hi]
    ELSE ValidateLoop(m, bufferLength, 0, c.ret, c.hi)

\* coapValidatePacket after the header checks returned h.
ValidateBody(m, bufferLength, h) ==
    IF ~h.pass
    THEN [ret |-> h.ret, ub |-> FALSE,
          hi |-> IF bufferLength < COAP_HDR_BYTES THEN -1 ELSE 0]
    ELSE IF bufferLength = COAP_HDR_BYTES THEN [ret |-> COAP_OK, ub |-> FALSE, hi |-> 0]
    ELSE ValidateOptions(m, bufferLength, coapGetOptionCount(m, bufferLength))

\* int8_t coapValidatePacket(uint8_t *pBuffer, uint16_t bufferLength)
coapValidatePacket(m, bufferLength) ==
    ValidateBody(m, bufferLength, ValidateHeader(m, bufferLength))

---------------------------------------------------------------------------
(* Header and token mutators.  Each result holds the int8_t returned and   *)
(* the buffer and length counter the call leaves behind.                   *)

\* int8_t coapSetVersion(pBuffer, pBufferLength, uint8_t version)
coapSetVersion(m, l, version) ==
    IF ~coapVersionIsValid(version)
    THEN [ret |-> COAP_INVALID_VERSION, mem |-> m, len |-> l]
    ELSE [ret |-> COAP_OK,
          mem |-> [m EXCEPT ![0] = ToUint8(BitOr(version * 64, BitAnd(m[0], 63)))],
          len |-> 1]

\* coapSetType storing the type bits alone, the other bits of byte 0 cleared.
coapSetTypeClobber(m, l, type) ==
    IF ~coapTypeIsValid(type)
    THEN [ret |-> COAP_INVALID_TYPE, mem |-> m, len |-> l]
    ELSE [ret |-> COAP_OK,
          mem |-> [m EXCEPT ![0] = ToUint8(type * 16)],
          len |-> 1]

\* int8_t coapSetType(pBuffer, pBufferLength, uint8_t type)
coapSetType(m, l, type) ==
    IF ~coapTypeIsValid(type)
    THEN [ret |-> COAP_INVALID_TYPE, mem |-> m, len |-> l]
    ELSE [ret |-> COAP_OK,
          mem |-> [m EXCEPT ![0] = ToUint8(BitOr(type * 16, BitAnd(m[0], 207)))],
          len |-> 1]

\* int8_t coapSetTokenLength(pBuffer, pBufferLength, uint8_t tokenLength)
\* The new nibble is OR-ed into byte 0; the old nibble is not cleared.
coapSetTokenLength(m, l, tokenLength) ==
    IF ~coapTokenLengthIsValid(tokenLength)
    THEN [ret |-> COAP_INVALID_TOKEN_LENGTH, mem |-> m, len |-> l]
    ELSE [ret |-> COAP_OK,
          mem |-> [m EXCEPT ![0] = ToUint8(BitOr(BitAnd(tokenLength, 15), m[0]))],
          len |-> 1]

\* int8_t coapSetCode(pBuffer, pBufferLength, CoapCode code)
coapSetCode(m, l, code) ==
    IF ~coapCodeIsValid(code)
    THEN [ret |-> COAP_UNKNOWN_CODE, mem |-> m, len |-> l]
    ELSE [ret |-> COAP_OK, mem |-> [m EXCEPT ![1] = ToUint8(code)], len |-> 2]

\* int8_t coapSetMessageId(pBuffer, pBufferLength, uint16_t messageId)
coapSetMessageId(m, l, messageId) ==
    [ret |-> COAP_OK,
     mem |-> [m EXCEPT ![2] = ToUint8(messageId \div 256),
                       ![3] = BitAnd(messageId, 255)],
     len |-> COAP_HDR_BYTES]

\* int8_t coapSetToken(pBuffer, pBufferLength, pToken, uint8_t tokenLength)
\* pToken is a sequence of at least tokenLength bytes.
coapSetToken(m, l, pToken, tokenLength) ==
    IF ~coapTokenLengthIsValid(tokenLength)
    THEN [ret |-> COAP_INVALID_TOKEN_LENGTH, mem |-> m, len |-> l, ub |-> FALSE]
    ELSE IF COAP_HDR_BYTES + tokenLength > Cap(m)
    THEN [ret |-> 0, mem |-> m, len |-> l, ub |-> TRUE]
    ELSE [ret |-> COAP_OK,
          mem |-> MemCpy(m, COAP_HDR_BYTES, pToken, tokenLength),
          len |-> COAP_HDR_BYTES + tokenLength, ub |-> FALSE]

\* int8_t coapSetPacketHeader(pBuffer, pBufferLength, version, type,
\* tokenLength, code, messageId).  `results` is a uint8_t, so no test
\* results < 0 succeeds: all five setters run and COAP_OK is returned.
coapSetPacketHeader(m, l, version, type, tokenLength, code, messageId) ==
    LET r1 == coapSetVersion(m, l, version) IN
    IF ToUint8(r1.ret) < 0 THEN r1
    ELSE
    LET r2 == coapSetType(r1.mem, r1.len, type) IN
    IF ToUint8(r2.ret) < 0 THEN r2
    ELSE
    LET r3 == coapSetTokenLength(r2.mem, r2.len, tokenLength) IN
    IF ToUint8(r3.ret) < 0 THEN r3
    ELSE
    LET r4 == coapSetCode(r3.mem, r3.len, code) IN
    IF ToUint8(r4.ret) < 0 THEN r4
    ELSE
    LET r5 == coapSetMessageId(r4.mem, r4.len, messageId) IN
    [ret |-> COAP_OK, mem |-> r5.mem, len |-> r5.len]

---------------------------------------------------------------------------
(* Option inserter. *)

\* int8_t coapBuildOptionHeaderLength(uint8_t option, uint8_t optionLength,
\* uint8_t pPreviousOption).  length, delta and difference are int8_t.
coapBuildOptionHeaderLength(option, optionLength, pPreviousOption) ==
    IF ~coapOptionIsValid(option) THEN COAP_INVALID_OPTION
    ELSE
    LET difference == ToInt8(ToUint8(option) - ToUint8(pPreviousOption)) IN
    IF difference < 0 THEN COAP_OPTIONS_OUT_OF_ORDER
    ELSE
    LET delta == difference
        l1 == IF delta < 13 THEN 1
              ELSE IF delta >= 13 /\ delta < 269 THEN 2
              ELSE 3
        l2 == IF ToUint8(optionLength) < 13 THEN l1
              ELSE IF ToUint8(optionLength) >= 13 /\ ToUint8(optionLength) < 269 THEN l1 + 1
              ELSE l1 + 2
    IN  ToInt8(l2)

\* int8_t coapBuildOptionHeader(pBuffer, pBufferLength, option, previousOption,
\* optionLength, optionHeaderLength, pNewPointer), with *pNewPointer = newPointer
\* on entry.  delta and length are uint8_t.  In the branch for delta 13..268
\* newPointer is advanced before the extension byte is stored and not after,
\* and the byte stored is option - 13.  The result is the int8_t conversion of
\* newPointer - pBuffer.  newp is *pNewPointer on return; ub: a store beyond
\* the caller's array.
coapBuildOptionHeader(m, l, option, previousOption, optionLength, optionHeaderLength, newPointer) ==
    LET fail(r) == [ret |-> r, mem |-> m, newp |-> newPointer, ub |-> FALSE]
        tokenLength == coapGetTokenLength(m, l)
    IN
    IF l < COAP_HDR_BYTES THEN fail(COAP_INVALID_PACKET)
    ELSE IF ~coapOptionIsValid(option) \/ ~coapOptionIsValid(previousOption)
    THEN fail(COAP_INVALID_OPTION)
    ELSE IF tokenLength < 0 THEN fail(tokenLength)
    ELSE IF COAP_HDR_BYTES + tokenLength + ToUint8(optionLength)
            + ToUint8(optionHeaderLength) > MAX_BUFFER_SIZE
    THEN fail(COAP_INSUFFICIENT_BUFFER)
    ELSE
    LET pointer == newPointer
        delta0 == ToUint8(ToUint8(option) - ToUint8(previousOption))
        \* delta encoding
        np1 == IF delta0 < 13 THEN newPointer + 1 ELSE newPointer
        ext1 == delta0 >= 13 /\ delta0 < 269
        delta == IF ext1 THEN 13 ELSE delta0
        np2 == IF ext1 THEN np1 + 1 ELSE np1
        \* length encoding
        ext2 == ToUint8(optionLength) >= 13 /\ ToUint8(optionLength) < 269
        length == IF ext2 THEN 13 ELSE ToUint8(optionLength)
        np3 == IF ext2 THEN np2 + 1 ELSE np2
        top == Max(pointer, Max(IF ext1 THEN np2 ELSE 0, IF ext2 THEN np2 ELSE 0))
    IN  IF top >= Cap(m)
        THEN [ret |-> 0, mem |-> m, newp |-> newPointer, ub |-> TRUE]
        ELSE
        LET m1 == IF ext1 THEN [m EXCEPT ![np2] = ToUint8(ToUint8(option) - 13)] ELSE m
            m2 == IF ext2 THEN [m1 EXCEPT ![np2] = ToUint8(ToUint8(optionLength) - 13)]
                  ELSE m1
            m3 == [m2 EXCEPT ![pointer] =
                       ToUint8(BitOr(BitAnd(delta, 15) * 16, length))]
        IN  [ret |-> ToInt8(np3), mem |-> m3, newp |-> np3, ub |-> FALSE]

AddOptionFail(m, l, tl, r) ==
    [ret |-> r, mem |-> m, len |-> l, tail |-> tl, ub |-> FALSE]

AddOptionUB(m, l, tl) ==
    [ret |-> 0, mem |-> m, len |-> l, tail |-> tl, ub |-> TRUE]

\* coapAddOption from the call of coapBuildOptionHeader (result h) on: its
\* int8_t result is stored in the uint16_t *pBufferLength, whose test < 0 never
\* succeeds; then the value is copied and the counter and pointer advanced.
AddOptionStore(m, l, tl, optionLength, pOptionData, h) ==
    IF h.ub \/ h.newp + ToUint8(optionLength) > Cap(m) THEN AddOptionUB(m, l, tl)
    ELSE IF ToUint16(h.ret) < 0 THEN AddOptionFail(m, l, tl, ToInt8(ToUint16(h.ret)))
    ELSE [ret |-> COAP_OK,
          mem |-> MemCpy(h.mem, h.newp, pOptionData, ToUint8(optionLength)),
          len |-> ToUint16(ToUint16(h.ret) + ToUint8(optionLength)),
          tail |-> h.newp + ToUint8(optionLength),
          ub |-> FALSE]

\* coapAddOption from the test of optionHeaderLength on.  The capacity test
\* does not read *pBufferLength.  The caller's pointer is never null, so the
\* test *pNewPointer != 0 is true.
AddOptionSized(m, l, tl, option, optionLength, pOptionData, tokenLength, previousOption, newPointer, optionHeaderLength) ==
    IF optionHeaderLength < 0 THEN AddOptionFail(m, l, tl, optionHeaderLength)
    ELSE IF COAP_HDR_BYTES + tokenLength + ToUint8(optionLength) + optionHeaderLength
            > MAX_BUFFER_SIZE
    THEN AddOptionFail(m, l, tl, COAP_INSUFFICIENT_BUFFER)
    ELSE IF newPointer # l /\ TRUE THEN AddOptionFail(m, l, tl, COAP_INVALID_PACKET)
    ELSE AddOptionStore(m, l, tl, optionLength, pOptionData,
             coapBuildOptionHeader(m, l, option, ToUint8(previousOption),
                                   optionLength, optionHeaderLength, newPointer))

\* coapAddOption once previousOption (an int8_t) and newPointer are known.
AddOptionPrev(m, l, tl, option, optionLength, pOptionData, tokenLength, previousOption, newPointer) ==
    AddOptionSized(m, l, tl, option, optionLength, pOptionData, tokenLength,
                   previousOption, newPointer,
                   coapBuildOptionHeaderLength(option, optionLength,
                                               ToUint8(previousOption)))

\* coapAddOption left before previousOption is read, with result r.
AddOptionDone(r) == [done |-> TRUE, r |-> r]

\* coapAddOption at the call of coapBuildOptionHeaderLength: previousOption
\* holds prev when prevSet, and is uninitialised otherwise; newp is newPointer.
AddOptionPending(prevSet, prev, newp, tokenLength) ==
    [done |-> FALSE, prevSet |-> prevSet, prev |-> prev, newp |-> newp,
     tokenLength |-> tokenLength]

\* coapAddOption with optionCount > 0, g being the result of
\* coapGetOption(pBuffer, *pBufferLength, optionCount, &previousOption, ...),
\* whose return value is not looked at.  previousOption is left uninitialised
\* when coapGetOption stores no number.
AddOptionAfter(m, l, tl, tokenLength, g) ==
    IF g.ub THEN AddOptionDone(AddOptionUB(m, l, tl))
    ELSE AddOptionPending(g.numSet, ToInt8(g.num), tl, tokenLength)

\* coapAddOption after coapGetTokenLength (stored in a uint8_t, so its test
\* < 0 never succeeds) and coapGetOptionCount (c, stored in an int8_t).
\* previousOptionData is never read, so the value of coapGetOption's
\* uninitialised optionData has no effect here: a null pointer is taken.
AddOptionCounted(m, l, tl, option, tokenLength, c) ==
    IF c.ub THEN AddOptionDone(AddOptionUB(m, l, tl))
    ELSE IF tokenLength < 0 THEN AddOptionDone(AddOptionFail(m, l, tl, ToInt8(tokenLength)))
    ELSE IF ToInt8(c.ret) < 0 THEN AddOptionDone(AddOptionFail(m, l, tl, ToInt8(c.ret)))
    ELSE IF ~coapOptionIsValid(option)
    THEN AddOptionDone(AddOptionFail(m, l, tl, COAP_INVALID_OPTION))
    ELSE IF ToInt8(c.ret) > 0
    THEN AddOptionAfter(m, l, tl, tokenLength,
                        coapGetOption(m, l, ToInt8(c.ret), <<>>))
    ELSE AddOptionPending(TRUE, 0, tl + COAP_HDR_BYTES + tokenLength, tokenLength)

\* The first part of coapAddOption, up to the point where previousOption and
\* newPointer are known.
AddOptionScan(m, l, tl, option) ==
    IF l < COAP_HDR_BYTES
    THEN AddOptionDone(AddOptionFail(m, l, tl, COAP_INVALID_PACKET))
    ELSE AddOptionCounted(m, l, tl, option,
                          ToUint8(coapGetTokenLength(m, l)),
                          coapGetOptionCount(m, l))

\* The second part of coapAddOption, s being the result of the first: indet
\* is the value the int8_t previousOption holds when it was left
\* uninitialised.
AddOptionResume(m, l, tl, option, optionLength, pOptionData, indet, s) ==
    IF s.done THEN s.r
    ELSE AddOptionPrev(m, l, tl, option, optionLength, pOptionData, s.tokenLength,
                       IF s.prevSet THEN s.prev ELSE ToInt8(indet), s.newp)

\* int8_t coapAddOption(pBuffer, pBufferLength, option, optionLength,
\* pOptionData, pNewPointer), with *pBufferLength = l and *pNewPointer = tl on
\* entry.  pOptionData is a sequence of at least optionLength bytes.
coapAddOption(m, l, tl, option, optionLength, pOptionData, indet) ==
    AddOptionResume(m, l, tl, option, optionLength, pOptionData, indet,
                    AddOptionScan(m, l, tl, option))

\* int32_t coapSetPayload(pBuffer, pBufferLength, payloadLength, pPayloadData,
\* pPointer, pNewPointer), with *pBufferLength = l and *pNewPointer = tl on
\* entry; pPointer is the offset the caller asks the payload to be written at.
\* tokenLength is a uint8_t, so its test < 0 never succeeds; payloadLength is
\* a uint16_t, so <= 0 means 0.  The capacity test does not read
\* *pBufferLength.  Nothing is written when the first payload byte is 0.
coapSetPayload(m, l, tl, payloadLength, pPayloadData, pPointer) ==
    LET tokenLength == ToUint8(coapGetTokenLength(m, l))
        fail(r) == [ret |-> r, mem |-> m, len |-> l, tail |-> tl, ub |-> FALSE]
    IN
    IF l < COAP_HDR_BYTES THEN fail(COAP_INVALID_PACKET)
    ELSE IF tokenLength < 0 THEN fail(tokenLength)
    ELSE IF ToUint16(payloadLength) <= 0 THEN fail(COAP_INVALID_PAYLOAD)
    ELSE IF ToUint16(payloadLength) >= MAX_BUFFER_SIZE
            \/ COAP_HDR_BYTES + tokenLength + ToUint16(payloadLength) > MAX_BUFFER_SIZE
    THEN fail(COAP_INSUFFICIENT_BUFFER)
    ELSE IF pPayloadData[1] # 0
    THEN IF pPointer + 1 + ToUint16(payloadLength) > Cap(m)
         THEN [ret |-> 0, mem |-> m, len |-> l, tail |-> tl, ub |-> TRUE]
         ELSE [ret |-> COAP_OK,
               mem |-> MemCpy([m EXCEPT ![pPointer] = COAP_PAYLOAD_MARKER],
                              pPointer + 1, pPayloadData, ToUint16(payloadLength)),
               len |-> ToUint16(l + (ToUint16(payloadLength) + 1)),
               tail |-> pPointer + ToUint16(payloadLength) + 1,
               ub |-> FALSE]
    ELSE fail(COAP_OK)

---------------------------------------------------------------------------
(* State.                                                                  *)
(*   mem, len, tail  the caller's buffer, length counter and tail pointer  *)
(*   op, arg, ret    the last entry point called, its arguments and its    *)
(*                   return value                                          *)
(*   out             the last call's outputs; out.ub: the call's behaviour *)
(*                   was undefined, after which nothing more is modelled   *)
(*   hist            per header field: how many calls wrote it (n) and the *)
(*                   value last written (val); failed: calls that returned *)
(*                   an error; calls: all mutator calls                    *)
(*   opts            the (number, value) pairs of the coapAddOption calls  *)
(*                   that returned COAP_OK, in order                       *)

Fields == {"version", "type", "tkl", "code", "mid", "token"}

ZeroMem == [i \in 0..(MemSize - 1) |-> 0]

\* The array that starts with the bytes of the sequence s and is zero after.
MkMem(s) == [i \in 0..(MemSize - 1) |-> IF i < Len(s) THEN s[i + 1] ELSE 0]

NoHist == [n |-> [f \in Fields |-> 0],
           val |-> [f \in Fields |-> IF f = "token" THEN <<>> ELSE 0],
           failed |-> 0, calls |-> 0]

\* hist after a call that returned r and, when r is COAP_OK, wrote the fields
\* of the record w.
Note(h, r, w) ==
    [n |-> [f \in Fields |->
               IF r = COAP_OK /\ f \in DOMAIN w THEN h.n[f] + 1 ELSE h.n[f]],
     val |-> [f \in Fields |->
               IF r = COAP_OK /\ f \in DOMAIN w THEN w[f] ELSE h.val[f]],
     failed |-> IF r = COAP_OK THEN h.failed ELSE h.failed + 1,
     calls |-> h.calls + 1]

\* A zeroed buffer, nothing written, the tail pointer at pBuffer.
Init ==
    /\ mem = ZeroMem
    /\ len = 0
    /\ tail = 0
    /\ op = "init"
    /\ arg = <<>>
    /\ ret = 0
    /\ out = [ub |-> FALSE]
    /\ hist = NoHist
    /\ opts = <<>>

---------------------------------------------------------------------------
(* Mutator actions. *)

\* A header or token mutator returned r (its result record).
Mutate(name, a, r, w) ==
    /\ ~out.ub
    /\ mem' = r.mem
    /\ len' = r.len
    /\ op' = name
    /\ arg' = a
    /\ ret' = r.ret
    /\ out' = [ub |-> FALSE]
    /\ hist' = Note(hist, r.ret, w)
    /\ UNCHANGED <<tail, opts>>

SetVersion(v) ==
    Mutate("SetVersion", <<v>>, coapSetVersion(mem, len, v), [version |-> v])

SetType(t) ==
    Mutate("SetType", <<t>>, coapSetType(mem, len, t), [type |-> t])

SetTokenLength(k) ==
    Mutate("SetTokenLength", <<k>>, coapSetTokenLength(mem, len, k), [tkl |-> k])

SetCode(c) ==
    Mutate("SetCode", <<c>>, coapSetCode(mem, len, c), [code |-> c])

SetMessageId(id) ==
    Mutate("SetMessageId", <<id>>, coapSetMessageId(mem, len, id), [mid |-> id])

SetToken(tok) ==
    LET r == coapSetToken(mem, len, tok, Len(tok)) IN
    /\ ~out.ub
    /\ mem' = r.mem
    /\ len' = r.len
    /\ op' = "SetToken"
    /\ arg' = <<tok, Len(tok)>>
    /\ ret' = r.ret
    /\ out' = [ub |-> r.ub]
    /\ hist' = Note(hist, r.ret, [token |-> tok])
    /\ UNCHANGED <<tail, opts>>

SetPacketHeader(v, t, k, c, id) ==
    Mutate("SetPacketHeader", <<v, t, k, c, id>>,
           coapSetPacketHeader(mem, len, v, t, k, c, id),
           [version |-> v, type |-> t, tkl |-> k, code |-> c, mid |-> id])

\* Values an uninitialised int8_t may hold: all of them.
IndetIn == -128..127

\* coapAddOption(pBuffer, &len, n, Len(value), value, &tail); arg also keeps
\* the length counter and tail pointer the call started from and the options
\* added before it.
AddOptionFrom(n, value, s) ==
    \E indet \in IF s.done \/ s.prevSet THEN {0} ELSE IndetIn :
       LET r == AddOptionResume(mem, len, tail, n, Len(value), value, indet, s) IN
       /\ ~out.ub
       /\ mem' = r.mem
       /\ len' = r.len
       /\ tail' = r.tail
       /\ op' = "AddOption"
       /\ arg' = <<n, value, len, tail, opts>>
       /\ ret' = r.ret
       /\ out' = [ub |-> r.ub]
       /\ hist' = Note(hist, r.ret, <<>>)
       /\ opts' = IF r.ret = COAP_OK /\ ~r.ub THEN Append(opts, <<n, value>>) ELSE opts

\* The uninitialised previousOption may hold any value of IndetIn; it is read
\* only when coapGetOption stored no number.
AddOption(n, value) == AddOptionFrom(n, value, AddOptionScan(mem, len, tail, n))

\* coapBuildOptionHeader(pBuffer, &len, option, previousOption, optionLength,
\* optionHeaderLength, &tail), called by itself; arg also keeps the length
\* counter and tail pointer the call started from.  The function leaves the
\* length counter alone.
BuildOptionHeader(option, previousOption, optionLength, optionHeaderLength) ==
    LET r == coapBuildOptionHeader(mem, len, option, previousOption, optionLength,
                                   optionHeaderLength, tail) IN
    /\ ~out.ub
    /\ mem' = r.mem
    /\ tail' = r.newp
    /\ op' = "BuildOptionHeader"
    /\ arg' = <<option, previousOption, optionLength, optionHeaderLength, len, tail>>
    /\ ret' = r.ret
    /\ out' = [ub |-> r.ub]
    /\ hist' = [hist EXCEPT !.calls = @ + 1,
                            !.failed = IF r.ret < 0 THEN @ + 1 ELSE @]
    /\ UNCHANGED <<len, opts>>

\* coapSetPayload(pBuffer, &len, Len(value), value, pBuffer + at, &tail); arg
\* also keeps the length counter and tail pointer the call started from.
SetPayload(value, at) ==
    LET r == coapSetPayload(mem, len, tail, Len(value), value, at) IN
    /\ ~out.ub
    /\ mem' = r.mem
    /\ len' = r.len
    /\ tail' = r.tail
    /\ op' = "SetPayload"
    /\ arg' = <<value, at, len, tail>>
    /\ ret' = r.ret
    /\ out' = [ub |-> r.ub]
    /\ hist' = Note(hist, r.ret, <<>>)
    /\ UNCHANGED opts

---------------------------------------------------------------------------
(* Accessor actions: the buffer is only read. *)

Access(name, a, r, o) ==
    /\ ~out.ub
    /\ op' = name
    /\ arg' = a
    /\ ret' = r
    /\ out' = o
    /\ UNCHANGED <<mem, len, tail, hist, opts>>

GetVersion == Access("GetVersion", <<>>, coapGetVersion(mem, len), [ub |-> FALSE])

GetType == Access("GetType", <<>>, coapGetType(mem, len), [ub |-> FALSE])

GetTokenLength ==
    Access("GetTokenLength", <<>>, coapGetTokenLength(mem, len), [ub |-> FALSE])

GetCode == Access("GetCode", <<>>, coapGetCode(mem, len), [ub |-> FALSE])

GetMessageId ==
    Access("GetMessageId", <<>>, coapGetMessageId(mem, len), [ub |-> FALSE])

GetToken ==
    LET r == coapGetToken(mem, len) IN
    Access("GetToken", <<>>, r.ret, [ub |-> FALSE, token |-> r.token])

GetOptionCount ==
    LET r == coapGetOptionCount(mem, len) IN
    Access("GetOptionCount", <<>>, r.ret, [ub |-> r.ub, hi |-> r.hi])

\* What the caller sees of the result r of coapGetOption on the array m.  A
\* stored pointer is recorded as its offset from pBuffer when it points into
\* the array or just behind its last byte (dataInside); a stored pointer to
\* any other address, however far from the array, is recorded as outside it,
\* with data 0.
GetOptionSeen(m, r) ==
    [ret |-> r.ret, numSet |-> r.numSet, num |-> r.num, dataSet |-> r.dataSet,
     dataInside |-> r.dataSet /\ r.data \in 0..Cap(m),
     data |-> IF r.dataSet /\ r.data \in 0..Cap(m) THEN r.data ELSE 0,
     ub |-> r.ub, hi |-> r.hi]

\* coapGetOption(pBuffer, len, i, &number, &data, pointer), optionData being
\* what the uninitialised local of that name holds on entry.
GetOption(i, optionData) ==
    LET r == coapGetOption(mem, len, i, optionData) IN
    Access("GetOption", <<i>>, r.ret, GetOptionSeen(mem, r))

GetPayload ==
    LET r == coapGetPayload(mem, len) IN
    Access("GetPayload", <<>>, r.ret, r)

\* A call that directly follows another coapValidatePacket call notes the
\* result of that call in arg.
ValidatePacket ==
    LET r == coapValidatePacket(mem, len) IN
    Access("ValidatePacket", IF op = "ValidatePacket" THEN <<ret>> ELSE <<>>,
           r.ret, [ub |-> r.ub, hi |-> r.hi])

---------------------------------------------------------------------------
(* Inputs. *)

\* Token values of length 0, 1, 2 and 8, and one of length 9.
Token0 == <<>>
Token1 == <<171>>
Token2 == <<161, 178>>
Token8 == <<1, 2, 3, 4, 5, 6, 7, 255>>
Token9 == <<1, 2, 3, 4, 5, 6, 7, 8, 9>>

\* Message ids around the sign bit of a 16-bit integer.
MidIn == {0, 4660, 32767, 32768, 65535}

\* Option values of length 0, 1, 1 and 13.
Value13 == <<104, 101, 108, 108, 111, 44, 32, 119, 111, 114, 108, 100, 33>>
ValueIn == {<<>>, <<97>>, <<98>>, Value13}

\* Option numbers: plain, reserved (9), with a delta extension (30, 60) and
\* beyond the range of an int8_t delta (200).
OptionIn == {1, 9, 11, 30, 60, 200}

\* Values an uninitialised pointer may hold: null (the empty sequence), or an
\* address, given as its offset from pBuffer.  Every address of the array and
\* the one behind its last byte is taken; <<-1>> stands for every address
\* outside the array, near or far, which GetOptionSeen records alike.
PointerIndetIn == {<<>>} \cup {<<p>> : p \in -1..MemSize}

\* A direct call of coapBuildOptionHeader by a caller that assembles options by
\* hand: option numbers plain, reserved (9) and with a delta extension, value
\* lengths without and with a length extension.  No call of this
\* specification's other steps follows it.
HeaderCall ==
    \E option \in {9, 11, 12, 60}, previousOption \in {0, 11},
       optionLength \in {0, 1, 13}, optionHeaderLength \in {1, 2} :
          BuildOptionHeader(option, previousOption, optionLength, optionHeaderLength)

---------------------------------------------------------------------------
(* Header specification: the five header setters and coapSetToken, called   *)
(* in any order on a zeroed buffer, at most MaxCalls calls.                 *)

HeaderNext ==
    /\ hist.calls < MaxCalls
    /\ \/ \E v \in {1, 2} : SetVersion(v)
       \/ \E t \in {0, 2, 4} : SetType(t)
       \/ \E k \in {0, 2, 5, 9} : SetTokenLength(k)
       \/ \E c \in {1, 69, 128, 5} : SetCode(c)
       \/ \E id \in {4660, 65535} : SetMessageId(id)
       \/ \E tok \in {Token0, Token2, Token9} : SetToken(tok)

SpecHeader == Init /\ [][HeaderNext]_vars

---------------------------------------------------------------------------
(* Packet specification: coapSetPacketHeader on a zeroed buffer, then       *)
(* coapSetToken, then the header accessors.                                 *)

PacketNext ==
    \/ /\ op = "init"
       /\ \E v \in {1, 2}, t \in 0..4, k \in 0..9, c \in CoapCode \cup {5, 255},
             id \in MidIn : SetPacketHeader(v, t, k, c, id)
    \/ /\ op = "SetPacketHeader"
       /\ \E tok \in {Token0, Token1, Token2, Token8, Token9} :
             /\ Len(tok) = hist.val.tkl
             /\ SetToken(tok)
    \/ /\ op # "init"
       /\ \/ GetVersion
          \/ GetType
          \/ GetTokenLength
          \/ GetCode
          \/ GetMessageId
          \/ GetToken

SpecPacket == Init /\ [][PacketNext]_vars

---------------------------------------------------------------------------
(* Encoder specification: a header, a token and up to MaxOptions options    *)
(* appended to a zeroed buffer.                                             *)

EncodeNext ==
    \/ /\ op = "init"
       /\ \E k \in {0, 2} : SetPacketHeader(COAP_VERSION, 0, k, 1, 4660)
    \/ /\ op = "SetPacketHeader"
       /\ \E tok \in {Token0, Token2} :
             /\ Len(tok) = hist.val.tkl
             /\ SetToken(tok)
    \/ /\ op \in {"SetToken", "AddOption"}
       /\ hist.calls < 2 + MaxOptions
       /\ \E n \in OptionIn, value \in ValueIn : AddOption(n, value)
    \/ /\ op \in {"SetToken", "AddOption"}
       /\ HeaderCall

Spec == Init /\ [][EncodeNext]_vars

---------------------------------------------------------------------------
(* Decoder specification: a received buffer of MemSize bytes, of which    *)
(* the first len are the datagram, is handed to a read-only entry point.  *)

\* First bytes: versions 0, 1, 2 and 3; token lengths 0, 2, 8, 9 and 15.
Byte0In == {0, 64, 72, 73, 79, 82, 128, 192}

\* Bytes of the message id around the sign bit of a 16-bit integer.
MidHighIn == {0, 18, 127, 128, 255}
MidLowIn == {0, 52, 255}

\* Option-region bytes: empty option, length 1, length nibbles 13 and 14,
\* Uri-Path of length 1, delta nibble 13, delta nibble 15, payload marker.
RegionIn == {0, 1, 13, 14, 177, 208, 240, 255}

\* Headers with every value of the code byte.
CodeBuffers == {<<64, c, 18, 52>> : c \in Byte}

\* Headers with each first byte, over codes and message ids; the bytes after
\* the header are zero.
HeaderBuffers ==
    {<<b0, b1, b2, b3>> : b0 \in Byte0In, b1 \in {1, 5, 128, 255},
                          b2 \in MidHighIn, b3 \in MidLowIn}

\* A valid header without token followed by MaxRegion bytes of RegionIn.
RegionBuffers ==
    {<<64, 1, 18, 52>> \o r : r \in [1..MaxRegion -> RegionIn]}

\* A valid header with a two-byte token followed by bytes that are all equal.
TokenBuffers ==
    {<<66, 1, 18, 52, 161, 178>> \o [i \in 1..MaxRegion |-> b] : b \in RegionIn}

\* Option regions in the forms of the wire format: literal delta and length,
\* delta with one and with two extension bytes, length with one extension
\* byte, two options.
FormRegions ==
    {<<177, 97>>, <<208, 17>>, <<209, 17, 97>>, <<224, 0, 31>>,
     <<13, 0>> \o Value13, <<177, 97, 1, 98>>}

\* A valid header without token followed by an option region of FormRegions
\* and by nothing, by the payload marker, or by the marker and a payload.
FormBuffers ==
    {<<64, 1, 18, 52>> \o r \o t :
        r \in FormRegions, t \in {<<>>, <<255>>, <<255, 104>>, <<255, 104, 105>>}}

DecodeInit ==
    /\ \/ \E b \in FormBuffers :
            /\ mem = MkMem(b)
            /\ len = Len(b)
       \/ \E b \in CodeBuffers \cup HeaderBuffers :
            /\ mem = MkMem(b)
            /\ len \in 0..(COAP_HDR_BYTES + 1)
       \/ \E b \in RegionBuffers :
            /\ mem = MkMem(b)
            /\ len \in (COAP_HDR_BYTES - 1)..(COAP_HDR_BYTES + MaxRegion)
       \/ \E b \in TokenBuffers :
            /\ mem = MkMem(b)
            /\ len \in (COAP_HDR_BYTES + 2)..(COAP_HDR_BYTES + 2 + MaxRegion)
    /\ tail = 0
    /\ op = "init"
    /\ arg = <<>>
    /\ ret = 0
    /\ out = [ub |-> FALSE]
    /\ hist = NoHist
    /\ opts = <<>>

\* The entry points only read the buffer, so one call per received buffer
\* shows all they do with it.
DecodeNext ==
    \/ op = "init" /\ GetVersion
    \/ op = "init" /\ GetType
    \/ op = "init" /\ GetTokenLength
    \/ op = "init" /\ GetCode
    \/ op = "init" /\ GetMessageId
    \/ op = "init" /\ GetToken
    \/ op = "init" /\ GetOptionCount
    \/ op = "init" /\ \E i \in 0..MaxRegion, optionData \in PointerIndetIn :
                           GetOption(i, optionData)
    \/ op = "init" /\ GetPayload
    \/ op = "init" /\ ValidatePacket
    \/ op = "ValidatePacket" /\ arg = <<>> /\ ValidatePacket

SpecDecode == DecodeInit /\ [][DecodeNext]_vars

---------------------------------------------------------------------------
(* Capacity specification: a header, then up to MaxOptions calls of        *)
(* coapAddOption and coapSetPayload with long values, on a buffer of       *)
(* MAX_BUFFER_SIZE bytes whose header bytes are cleared.                   *)

\* Option values of 100 and 125 bytes and a payload of 1400 bytes.
Value100 == [i \in 1..100 |-> 120]
Value125 == [i \in 1..125 |-> 120]
Payload1400 == [i \in 1..1400 |-> 121]

\* Payloads: empty, two bytes, two bytes of which the first is 0, long.
PayloadIn == {<<>>, <<104, 105>>, <<0, 105>>, Payload1400}

\* The caller's buffer is MAX_BUFFER_SIZE bytes.  The caller clears the four
\* header bytes, which the setters only OR into; the bytes behind them hold
\* whatever the memory held before the first call, StaleByte each.
StaleByte == 14

CapacityInit ==
    /\ mem = [i \in 0..(MAX_BUFFER_SIZE - 1) |-> IF i < COAP_HDR_BYTES THEN 0 ELSE StaleByte]
    /\ len = 0
    /\ tail = 0
    /\ op = "init"
    /\ arg = <<>>
    /\ ret = 0
    /\ out = [ub |-> FALSE]
    /\ hist = NoHist
    /\ opts = <<>>

\* The caller hands coapSetPayload the end of the message: the tail pointer
\* coapAddOption returned, or pBuffer + len when no option has been added.
CapacityNext ==
    \/ /\ op = "init"
       /\ SetPacketHeader(COAP_VERSION, 0, 0, 1, 4660)
    \/ /\ op # "init"
       /\ hist.calls <= MaxOptions + 1
       /\ \E n \in {9, 11, 60}, value \in {<<>>, <<97>>, Value100, Value125} :
             AddOption(n, value)
    \/ /\ op # "init"
       /\ hist.calls <= MaxOptions + 1
       /\ \E value \in PayloadIn :
             SetPayload(value, IF opts = <<>> THEN len ELSE tail)

SpecCapacity == CapacityInit /\ [][CapacityNext]_vars

---------------------------------------------------------------------------
(* Field specification: one call of a byte-0 setter or of coapSetToken on a  *)
(* buffer that holds a header with any first byte.                          *)

\* A token longer than an int8_t can count.
Token200 == [i \in 1..200 |-> 170]

\* Token lengths around the bound 8 and around the sign bit of an int8_t.
TokenLengthIn == (0..9) \cup {15, 16, 127, 128, 200, 255}

FieldInit ==
    /\ \E b0 \in Byte : mem = MkMem(<<b0, 69, 18, 52>>)
    /\ len = COAP_HDR_BYTES
    /\ tail = 0
    /\ op = "init"
    /\ arg = <<>>
    /\ ret = 0
    /\ out = [ub |-> FALSE]
    /\ hist = NoHist
    /\ opts = <<>>

FieldNext ==
    \/ op = "init" /\ \E v \in 0..3 : SetVersion(v)
    \/ op = "init" /\ \E t \in {0, 1, 2, 3, 4, 255} : SetType(t)
    \/ op = "init" /\ \E k \in TokenLengthIn : SetTokenLength(k)
    \/ op = "init" /\ \E tok \in {Token0, Token2, Token8, Token9, Token200} : SetToken(tok)

SpecField == FieldInit /\ [][FieldNext]_vars

---------------------------------------------------------------------------
(* Message specification: a whole message is assembled in a zeroed buffer   *)
(* (header, token, options, payload) and then handed to coapValidatePacket. *)

\* Option values: none, and one byte that is 0 or the marker value.
MessageValueIn == {<<>>, <<0>>, <<255>>}

MessageNext ==
    \/ /\ op = "init"
       /\ \E k \in {0, 2} : SetPacketHeader(COAP_VERSION, 0, k, 1, 4660)
    \/ /\ op = "SetPacketHeader"
       /\ \E tok \in {Token0, Token2} :
             /\ Len(tok) = hist.val.tkl
             /\ SetToken(tok)
    \/ /\ op \in {"SetToken", "AddOption"}
       /\ Len(opts) < MaxMessageOptions
       /\ hist.failed = 0
       /\ \E n \in {11, 60}, value \in MessageValueIn : AddOption(n, value)
    \/ /\ op \in {"SetToken", "AddOption"}
       /\ HeaderCall
    \/ /\ op \in {"SetToken", "AddOption"}
       /\ hist.failed = 0
       /\ SetPayload(<<104, 105>>, IF opts = <<>> THEN len ELSE tail)
    \/ /\ op \in {"SetToken", "AddOption", "SetPayload"}
       /\ ValidatePacket

SpecMessage == Init /\ [][MessageNext]_vars

---------------------------------------------------------------------------
(* The wire format the properties below are stated against.               *)

\* The two nibbles of a byte.
HighNibble(b) == b \div 16
LowNibble(b) == b % 16

\* Option numbers the inserter has to reject.
ReservedOptions == {2, 9, 10, 128, 132, 136, 140}

\* Number of extension bytes a delta or length nibble announces.
WireExt(nibble) == IF nibble = 13 THEN 1 ELSE IF nibble = 14 THEN 2 ELSE 0

\* The nibble that encodes a delta or length x below 269.
WireNibble(x) == IF x < 13 THEN x ELSE 13

\* Length of the header of an option with the given delta and value length.
WireHeaderLen(delta, valueLen) ==
    1 + (IF delta \in 13..268 THEN 1 ELSE 0) + (IF valueLen \in 13..268 THEN 1 ELSE 0)

\* The bytes of one option with a delta and a value length below 269.
WireOption(delta, value) ==
    <<WireNibble(delta) * 16 + WireNibble(Len(value))>>
    \o (IF delta \in 13..268 THEN <<delta - 13>> ELSE <<>>)
    \o (IF Len(value) \in 13..268 THEN <<Len(value) - 13>> ELSE <<>>)
    \o value

\* The value length of the option whose header byte is at p, its length
\* extension starting at q.
WireValueLen(m, p, q) ==
    IF LowNibble(m[p]) < 13 THEN LowNibble(m[p])
    ELSE IF LowNibble(m[p]) = 13 THEN m[q] + 13
    ELSE m[q] * 256 + m[q + 1] + 269

RECURSIVE WireWalk(_, _, _)
\* The option region of the datagram m[0..l-1] read from position p on:
\* headers are the positions of the option header bytes, marker the position
\* of the payload marker (l when there is none).  The walk ends at the marker,
\* at a header byte with a nibble 15, and where the datagram ends.
WireWalk(m, l, p) ==
    IF p >= l THEN [headers |-> {}, marker |-> l]
    ELSE IF m[p] = COAP_PAYLOAD_MARKER THEN [headers |-> {}, marker |-> p]
    ELSE IF HighNibble(m[p]) = 15 \/ LowNibble(m[p]) = 15
            \/ p + 1 + WireExt(HighNibble(m[p])) + WireExt(LowNibble(m[p])) > l
    THEN [headers |-> {p}, marker |-> l]
    ELSE LET q == p + 1 + WireExt(HighNibble(m[p]))
             w == WireWalk(m, l, q + WireExt(LowNibble(m[p])) + WireValueLen(m, p, q))
         IN [headers |-> {p} \cup w.headers, marker |-> w.marker]

\* The datagram starts with a header of version 1, a token length of at most
\* 8, an enumerated code, and the token.
WireHeaderValid ==
    /\ len >= COAP_HDR_BYTES
    /\ (mem[0] \div 64) = COAP_VERSION
    /\ LowNibble(mem[0]) <= 8
    /\ mem[1] \in CoapCode
    /\ len >= COAP_HDR_BYTES + LowNibble(mem[0])

\* The option region of the datagram in the buffer.
WireOptions == WireWalk(mem, len, COAP_HDR_BYTES + LowNibble(mem[0]))

---------------------------------------------------------------------------
(* Properties.                                                              *)

\* Every header field and the token have been written once, successfully,
\* with version 1, a type in 0..3, a token of 0..8 bytes whose length is the
\* token length written, an enumerated code and a message id in 0..65535.
HeaderWritten ==
    /\ hist.failed = 0
    /\ \A f \in Fields : hist.n[f] = 1
    /\ hist.val.version = COAP_VERSION
    /\ hist.val.type \in 0..3
    /\ Len(hist.val.token) \in 0..8
    /\ hist.val.tkl = Len(hist.val.token)
    /\ hist.val.code \in CoapCode
    /\ hist.val.mid \in 0..65535

\* C1: once coapSetPacketHeader and coapSetToken have written a version 1, a
\* type in 0..3, a token of 0..8 bytes, an enumerated code and a message id in
\* 0..65535 into a zeroed buffer, coapGetVersion, coapGetType,
\* coapGetTokenLength, coapGetCode, coapGetMessageId and coapGetToken return
\* exactly the values written.
C1_HeaderRoundTrip ==
    HeaderWritten =>
        /\ op = "GetVersion" => ret = hist.val.version
        /\ op = "GetType" => ret = hist.val.type
        /\ op = "GetTokenLength" => ret = hist.val.tkl
        /\ op = "GetCode" => ret = hist.val.code
        /\ op = "GetMessageId" => ret = hist.val.mid
        /\ op = "GetToken" => (ret = COAP_OK /\ out.token = hist.val.token)

\* C2: on a buffer of at least 4 bytes coapValidatePacket returns
\* InvalidVersion if the version bits are not 1, otherwise InvalidTokenLength
\* if the token-length nibble is in 9..15, otherwise UnknownCode if byte 1 is
\* not an enumerated code.
C2_FirstHeaderError ==
    (op = "ValidatePacket" /\ len >= COAP_HDR_BYTES) =>
        IF mem[0] \div 64 # COAP_VERSION THEN ret = COAP_INVALID_VERSION
        ELSE IF LowNibble(mem[0]) \in 9..15 THEN ret = COAP_INVALID_TOKEN_LENGTH
        ELSE IF mem[1] \notin CoapCode THEN ret = COAP_UNKNOWN_CODE
        ELSE TRUE

\* C3: on a buffer with a valid header and token whose option region has an
\* option header byte, other than the payload marker, with a delta nibble 15
\* or a length nibble 15, coapValidatePacket returns InvalidPacket.
C3_NibbleFifteenRejected ==
    (/\ op = "ValidatePacket"
     /\ WireHeaderValid
     /\ \E p \in WireOptions.headers :
            HighNibble(mem[p]) = 15 \/ LowNibble(mem[p]) = 15)
    => ret = COAP_INVALID_PACKET

\* C4: coapValidatePacket returns InvalidPacket for every buffer whose payload
\* marker is its last byte, with or without options before the marker.
C4_TrailingMarkerRejected ==
    (/\ op = "ValidatePacket"
     /\ WireHeaderValid
     /\ WireOptions.marker = len - 1)
    => ret = COAP_INVALID_PACKET

\* The read-only entry points.
DecoderOps ==
    {"GetVersion", "GetType", "GetTokenLength", "GetCode", "GetMessageId",
     "GetToken", "GetOptionCount", "GetOption", "GetPayload", "ValidatePacket"}

\* C5: on a buffer shorter than 4 bytes every decoder entry point and
\* coapValidatePacket return InvalidPacket.
C5_ShortBufferRejected ==
    (op \in DecoderOps /\ len < COAP_HDR_BYTES) =>
        (ret = COAP_INVALID_PACKET /\ ~out.ub)

\* The three bytes 40 01 12 have been handed to coapValidatePacket.
C5_Witness ==
    /\ op = "ValidatePacket"
    /\ len = 3
    /\ Slice(mem, 0, 3) = <<64, 1, 18>>
    /\ ret = COAP_INVALID_PACKET

\* C6: on a buffer of at least 4 bytes coapGetCode returns byte 1 when it is
\* an enumerated code and UnknownCode for every other value of byte 1.
C6_GetCode ==
    (op = "GetCode" /\ len >= COAP_HDR_BYTES) =>
        ret = (IF mem[1] \in CoapCode THEN mem[1] ELSE COAP_UNKNOWN_CODE)

\* C7: on a buffer of at least 4 bytes coapGetMessageId returns
\* 256 * byte 2 + byte 3, over the whole range 0..65535, and never a negative
\* value or an error code.
C7_GetMessageId ==
    (op = "GetMessageId" /\ len >= COAP_HDR_BYTES) =>
        (ret = 256 * mem[2] + mem[3] /\ ret \in 0..65535)

\* C8: when the five header setters have each been called once, in any
\* order, with valid arguments on a zeroed buffer, the length counter is 4 and
\* the four header bytes hold the packed fields.
C8_SettersAnyOrder ==
    (/\ hist.calls = 5
     /\ hist.failed = 0
     /\ \A f \in Fields \ {"token"} : hist.n[f] = 1
     /\ hist.n.token = 0)
    => /\ len = COAP_HDR_BYTES
       /\ mem[0] = hist.val.version * 64 + hist.val.type * 16 + hist.val.tkl
       /\ mem[1] = hist.val.code
       /\ mem[2] = hist.val.mid \div 256
       /\ mem[3] = hist.val.mid % 256

\* The number of the last option added before a coapAddOption call, 0 when
\* there is none: before is the sequence of options added before it.
LastOption(before) ==
    IF before = <<>> THEN 0 ELSE before[Len(before)][1]

\* C9: coapAddOption with a non-reserved number n not below the number p of
\* the last option in the buffer succeeds and appends at the tail the byte
\* (delta nibble, length nibble), one byte delta - 13 when delta = n - p is in
\* 13..268, one byte L - 13 when the value length L is in 13..268, and the L
\* value bytes.
C9_AddOptionBytes ==
    (/\ op = "AddOption"
     /\ arg[1] \notin ReservedOptions
     /\ arg[1] >= LastOption(arg[5])
     /\ arg[3] + WireHeaderLen(arg[1] - LastOption(arg[5]), Len(arg[2]))
            + Len(arg[2]) <= MemSize)
    => /\ ret = COAP_OK
       /\ ~out.ub
       /\ Slice(mem, arg[3],
                WireHeaderLen(arg[1] - LastOption(arg[5]), Len(arg[2])) + Len(arg[2]))
          = WireOption(arg[1] - LastOption(arg[5]), arg[2])

\* C10: a successful coapAddOption grows the length counter and the tail
\* pointer by the header length (1, plus 1 for a delta in 13..268, plus 1 for
\* a value length in 13..268) plus the value length; the tail pointer of the
\* first option is counted from the end of the header and token.
C10_AddOptionGrowth ==
    (/\ op = "AddOption"
     /\ ret = COAP_OK
     /\ ~out.ub
     /\ arg[1] >= LastOption(arg[5]))
    => /\ len = arg[3] + WireHeaderLen(arg[1] - LastOption(arg[5]), Len(arg[2]))
                + Len(arg[2])
       /\ tail = (IF arg[5] = <<>> THEN COAP_HDR_BYTES + hist.val.tkl ELSE arg[4])
                 + WireHeaderLen(arg[1] - LastOption(arg[5]), Len(arg[2]))
                 + Len(arg[2])

\* C11: after successful encoder calls the length counter never exceeds
\* MAX_BUFFER_SIZE: coapAddOption and coapSetPayload return InsufficientBuffer
\* and write nothing when the length counter plus the bytes they would append
\* (option header and value, or marker and payload) is greater than
\* MAX_BUFFER_SIZE.
C11_CapacityRespected ==
    [][/\ (hist'.failed = 0 /\ ~out'.ub) => len' <= MAX_BUFFER_SIZE
       /\ (/\ op' = "AddOption"
           /\ arg'[1] >= LastOption(opts)
           /\ len + WireHeaderLen(arg'[1] - LastOption(opts), Len(arg'[2]))
                  + Len(arg'[2]) > MAX_BUFFER_SIZE)
          => (/\ ret' = COAP_INSUFFICIENT_BUFFER
              /\ ~out'.ub
              /\ mem' = mem /\ len' = len /\ tail' = tail)
       /\ (/\ op' = "SetPayload"
           /\ Len(arg'[1]) > 0
           /\ len + 1 + Len(arg'[1]) > MAX_BUFFER_SIZE)
          => (/\ ret' = COAP_INSUFFICIENT_BUFFER
              /\ ~out'.ub
              /\ mem' = mem /\ len' = len /\ tail' = tail)]_vars

\* C14: a successful coapSetPayload of a non-empty value that fits, whatever
\* its bytes, writes 0xFF and the value bytes at the offset it was handed,
\* leaves the tail pointer behind them and raises the length counter by
\* 1 + the value length.
C14_SetPayloadWrites ==
    (/\ op = "SetPayload"
     /\ Len(arg[1]) > 0
     /\ arg[3] + 1 + Len(arg[1]) <= MAX_BUFFER_SIZE
     /\ ret = COAP_OK
     /\ ~out.ub)
    => /\ mem[arg[2]] = COAP_PAYLOAD_MARKER
       /\ Slice(mem, arg[2] + 1, Len(arg[1])) = arg[1]
       /\ tail = arg[2] + 1 + Len(arg[1])
       /\ len = arg[3] + 1 + Len(arg[1])

\* C12: when the last option in the buffer has number p, coapAddOption with a
\* non-reserved number n < p returns OptionsOutOfOrder and leaves the buffer
\* bytes, the length counter and the tail pointer as they were.
C12_OutOfOrderRejected ==
    [][(/\ op' = "AddOption"
        /\ opts # <<>>
        /\ arg'[1] \notin ReservedOptions
        /\ arg'[1] < LastOption(opts))
       => (/\ ret' = COAP_OPTIONS_OUT_OF_ORDER
           /\ ~out'.ub
           /\ mem' = mem /\ len' = len /\ tail' = tail)]_vars

\* C13: coapAddOption with a reserved option number (2, 9, 10, 128, 132, 136,
\* 140) on a buffer that holds a valid header returns InvalidOption and leaves
\* the buffer bytes, the length counter and the tail pointer as they were,
\* whatever options the buffer already holds.
C13_ReservedRejected ==
    [][(/\ op' = "AddOption"
        /\ WireHeaderValid
        /\ arg'[1] \in ReservedOptions)
       => (/\ ret' = COAP_INVALID_OPTION
           /\ ~out'.ub
           /\ mem' = mem /\ len' = len /\ tail' = tail)]_vars

\* The delta of the option whose header byte is at p.
WireDelta(m, p) ==
    IF HighNibble(m[p]) < 13 THEN HighNibble(m[p])
    ELSE IF HighNibble(m[p]) = 13 THEN m[p + 1] + 13
    ELSE m[p + 1] * 256 + m[p + 2] + 269

RECURSIVE WireParse(_, _, _, _)
\* The options of the datagram m[0..l-1] from position p on, the option before
\* p having number prev: options lists number, value position and value
\* length of each; stop tells whether the options end at the payload marker
\* (at pos), where the datagram ends, or at an option that is malformed
\* (nibble 15, or header or value running past the end).
WireParse(m, l, p, prev) ==
    IF p >= l THEN [options |-> <<>>, stop |-> "end", pos |-> l]
    ELSE IF m[p] = COAP_PAYLOAD_MARKER THEN [options |-> <<>>, stop |-> "marker", pos |-> p]
    ELSE IF HighNibble(m[p]) = 15 \/ LowNibble(m[p]) = 15
            \/ p + 1 + WireExt(HighNibble(m[p])) + WireExt(LowNibble(m[p])) > l
    THEN [options |-> <<>>, stop |-> "malformed", pos |-> p]
    ELSE LET q == p + 1 + WireExt(HighNibble(m[p]))
             v == q + WireExt(LowNibble(m[p]))
             n == WireValueLen(m, p, q)
             num == prev + WireDelta(m, p)
         IN  IF v + n > l THEN [options |-> <<>>, stop |-> "malformed", pos |-> p]
             ELSE LET w == WireParse(m, l, v + n, num)
                  IN [options |-> <<[num |-> num, at |-> v, n |-> n]>> \o w.options,
                      stop |-> w.stop, pos |-> w.pos]

\* The parsed option region of the datagram in the buffer.
WireParsed == WireParse(mem, len, COAP_HDR_BYTES + LowNibble(mem[0]), 0)

\* The datagram is a valid header and token, well-formed options, and either
\* nothing more or the payload marker and at least one payload byte.
WireWellFormed ==
    /\ WireHeaderValid
    /\ \/ WireParsed.stop = "end"
       \/ WireParsed.stop = "marker" /\ WireParsed.pos + 1 < len

\* C15: on a datagram of a valid header, token, well-formed options, the
\* payload marker and m >= 1 more bytes, coapGetPayload returns m and hands
\* out the position right after the marker.
C15_GetPayloadView ==
    (/\ op = "GetPayload"
     /\ WireWellFormed
     /\ WireParsed.stop = "marker")
    => /\ ~out.ub
       /\ ret = len - WireParsed.pos - 1
       /\ out.payloadSet
       /\ out.payload = WireParsed.pos + 1

\* C16: coapGetPayload returns InvalidPacket when the payload marker is the
\* last byte of the datagram, with options before the marker and with none.
C16_BareMarkerRejected ==
    (/\ op = "GetPayload"
     /\ WireHeaderValid
     /\ WireParsed.stop = "marker"
     /\ WireParsed.pos = len - 1)
    => /\ ~out.ub
       /\ ret = COAP_INVALID_PACKET

\* C17: on a well-formed datagram with one or more options and no payload
\* marker, coapGetPayload stops where the datagram ends and reports a payload
\* of length 0, not an error.
C17_NoMarkerEmptyPayload ==
    (/\ op = "GetPayload"
     /\ WireWellFormed
     /\ WireParsed.stop = "end"
     /\ Len(WireParsed.options) >= 1)
    => /\ ~out.ub
       /\ ret = 0

\* C18: on a datagram with a valid header and token and a well-formed option
\* region, coapGetOptionCount returns the number of options that stand before
\* the payload marker or the end of the datagram.
C18_OptionCountExact ==
    (/\ op = "GetOptionCount"
     /\ WireHeaderValid
     /\ WireParsed.stop # "malformed")
    => /\ ~out.ub
       /\ ret = Len(WireParsed.options)

\* C19: on a well-formed datagram with n options, coapGetOption with a
\* zero-based index i < n hands out the number, the value position and the
\* value length of the option at position i; index 0 is the first option.
C19_GetOptionByIndex ==
    (/\ op = "GetOption"
     /\ WireWellFormed
     /\ arg[1] < Len(WireParsed.options))
    => /\ ~out.ub
       /\ ret = WireParsed.options[arg[1] + 1].n
       /\ out.numSet
       /\ out.num = WireParsed.options[arg[1] + 1].num
       /\ out.dataSet /\ out.dataInside
       /\ out.data = WireParsed.options[arg[1] + 1].at

\* C20: on a well-formed datagram with n options, coapGetOption with an index
\* i >= n returns FoundPayloadMarker when the payload marker follows the
\* options and EndOfPacket when the datagram ends after them.
C20_GetOptionPastLast ==
    (/\ op = "GetOption"
     /\ WireWellFormed
     /\ arg[1] >= Len(WireParsed.options))
    => /\ ~out.ub
       /\ ret = (IF WireParsed.stop = "marker" THEN COAP_FOUND_PAYLOAD_MARKER
                                                ELSE COAP_END_OF_PACKET)

\* C21: walking a well-formed option region with coapDecodeOption, the number
\* reported after each option is the number before it plus the decoded delta
\* (nibble, extension byte + 13, or 16-bit extension + 269) without
\* wrap-around, so the reported numbers never decrease.  coapGetOption with
\* optionIndex k reports the number after k calls of coapDecodeOption.
C21_OptionNumbersAccumulate ==
    (/\ op = "GetOption"
     /\ WireWellFormed
     /\ arg[1] \in 1..Len(WireParsed.options))
    => /\ ~out.ub
       /\ out.num = WireParsed.options[arg[1]].num

\* C22: coapValidatePacket is pure: for any buffer and length a call leaves
\* every byte of the buffer and the length as they were, its result is
\* determined by the buffer and the length (no read through an uninitialised
\* pointer or outside the caller's array takes part in it), and a second call
\* on the same buffer and length returns what the first returned.
C22_ValidatePure ==
    [][(op' = "ValidatePacket")
       => /\ mem' = mem /\ len' = len
          /\ ~out'.ub
          /\ (op = "ValidatePacket" => ret' = ret)]_vars

\* C23: each setter of byte 0 changes its own bit field only, whatever byte 0
\* held: coapSetVersion keeps the low six bits, coapSetType keeps the version
\* bits and the token-length nibble, coapSetTokenLength keeps the high nibble,
\* and none of them changes bytes 1..3.
C23_SettersKeepOtherBits ==
    [][/\ (op' = "SetVersion") => (mem'[0] % 64 = mem[0] % 64)
       /\ (op' = "SetType")
          => (mem'[0] \div 64 = mem[0] \div 64 /\ mem'[0] % 16 = mem[0] % 16)
       /\ (op' = "SetTokenLength") => (mem'[0] \div 16 = mem[0] \div 16)
       /\ (op' \in {"SetVersion", "SetType", "SetTokenLength"})
          => (\A i \in 1..3 : mem'[i] = mem[i])]_vars

\* coapSetType has stored type 2 into a byte 0 that keeps version bits 3 and
\* token-length nibble 5.
C23_Witness ==
    /\ op = "SetType"
    /\ ret = COAP_OK
    /\ arg = <<2>>
    /\ mem[0] = 192 + 32 + 5

\* C24: coapSetTokenLength and coapSetToken return InvalidTokenLength for
\* every token length above 8, up to 255, and then leave the buffer bytes and
\* the length counter as they were.
C24_LongTokenRejected ==
    [][(\/ op' = "SetTokenLength" /\ arg'[1] > 8
        \/ op' = "SetToken" /\ arg'[2] > 8)
       => (/\ ret' = COAP_INVALID_TOKEN_LENGTH
           /\ ~out'.ub
           /\ mem' = mem /\ len' = len)]_vars

\* C30: a successful coapSetTokenLength(t) with t in 0..8 replaces the
\* token-length nibble, whatever nibble byte 0 held: coapGetTokenLength on the
\* header then returns t.
C30_TokenLengthReplaced ==
    (/\ op = "SetTokenLength"
     /\ ret = COAP_OK
     /\ arg[1] \in 0..8)
    => coapGetTokenLength(mem, COAP_HDR_BYTES) = arg[1]

\* The first coapDecodeOption call of coapGetOption: on the byte behind the
\* header and token, with the length that remains there.
FirstDecode ==
    coapDecodeOption(mem, COAP_HDR_BYTES + LowNibble(mem[0]),
                     len - (COAP_HDR_BYTES + LowNibble(mem[0])), 0)

\* C25: coapDecodeOption returns InvalidPacket and reads no byte behind the
\* remaining length when the extension bytes of the delta or of the length, or
\* the option value, would reach past the end of what remains.
C25_DecodeBoundsChecked ==
    (/\ op = "GetOption"
     /\ arg = <<1>>
     /\ WireHeaderValid
     /\ COAP_HDR_BYTES + LowNibble(mem[0]) < len
     /\ WireParsed.stop = "malformed"
     /\ WireParsed.pos = COAP_HDR_BYTES + LowNibble(mem[0])
     /\ HighNibble(mem[WireParsed.pos]) # 15
     /\ LowNibble(mem[WireParsed.pos]) # 15)
    => /\ ~FirstDecode.ub
       /\ FirstDecode.ret = COAP_INVALID_PACKET
       /\ FirstDecode.hi < len

\* C26: once coapSetPayload has succeeded, no later coapAddOption call
\* succeeds; in particular not the call that directly follows a coapSetPayload
\* that wrote the marker and the payload.
C26_NoOptionAfterPayload ==
    [][(/\ op = "SetPayload"
        /\ ret = COAP_OK
        /\ ~out.ub
        /\ mem[arg[2]] = COAP_PAYLOAD_MARKER
        /\ len = arg[3] + 1 + Len(arg[1])
        /\ op' = "AddOption")
       => ret' # COAP_OK]_vars

\* The options added so far are in order and none has a reserved number.
OptionsInOrder ==
    /\ \A i \in 1..Len(opts) : opts[i][1] \notin ReservedOptions
    /\ \A i \in 1..(Len(opts) - 1) : opts[i][1] <= opts[i + 1][1]

\* C27: coapValidatePacket returns COAP_OK on every message the encoder has
\* assembled from valid fields: header, token, in-order options that are not
\* reserved, and possibly a payload, every call having succeeded.
C27_AssembledMessageValid ==
    (/\ op = "ValidatePacket"
     /\ hist.failed = 0
     /\ OptionsInOrder)
    => /\ ~out.ub
       /\ ret = COAP_OK

\* C28: coapSetPacketHeader returns the error of the first setter that
\* rejects its argument (version, type, token length, code, in this order) and
\* writes no field after it; it returns COAP_OK only when all five fields were
\* valid and written.
C28_HeaderFirstError ==
    [][(op' = "SetPacketHeader")
       => IF arg'[1] # COAP_VERSION
          THEN ret' = COAP_INVALID_VERSION /\ mem' = mem
          ELSE IF arg'[2] \notin 0..3
          THEN /\ ret' = COAP_INVALID_TYPE
               /\ mem'[0] % 64 = mem[0] % 64
               /\ \A i \in 1..3 : mem'[i] = mem[i]
          ELSE IF arg'[3] \notin 0..8
          THEN /\ ret' = COAP_INVALID_TOKEN_LENGTH
               /\ mem'[0] % 16 = mem[0] % 16
               /\ \A i \in 1..3 : mem'[i] = mem[i]
          ELSE IF arg'[4] \notin CoapCode
          THEN /\ ret' = COAP_UNKNOWN_CODE
               /\ \A i \in 1..3 : mem'[i] = mem[i]
          ELSE /\ ret' = COAP_OK
               /\ mem'[0] \div 64 = arg'[1]
               /\ (mem'[0] \div 16) % 4 = arg'[2]
               /\ mem'[1] = arg'[4]
               /\ mem'[2] * 256 + mem'[3] = arg'[5]]_vars

\* C29: no decoder (coapGetOptionCount, coapGetOption with coapDecodeOption,
\* coapGetPayload, coapValidatePacket) reads a byte at an offset outside
\* 0..bufferLength-1, whatever the buffer holds and whatever the length is.
C29_ReadsInsideDatagram ==
    (op \in {"GetOptionCount", "GetOption", "GetPayload", "ValidatePacket"})
    => /\ ~out.ub
       /\ out.hi < len

====
